---- MODULE Spec2Model ----
(***************************************************************************)
(* ImageCacheManager (src/unnamed/part_000) and its key deriver            *)
(* (src/utils/pathUtils.js) as a state machine.                            *)
(*                                                                         *)
(* A JavaScript string is a sequence of one-character strings, so that     *)
(* toLowerCase, startsWith, indexOf, split and the character codes are     *)
(* computed, not assumed.                                                  *)
(***************************************************************************)
EXTENDS Integers, Sequences, FiniteSets, TLC

(***************************************************************************)
(* Strings                                                                 *)
(***************************************************************************)

\* The printable ASCII characters, code 32 first (the double quote, the
\* backslash and the back quote are spelled out).
Ascii ==
  << " ", "!", "dquote", "#", "$", "%", "&", "'", "(", ")", "*", "+", ",", "-", ".", "/",
     "0", "1", "2", "3", "4", "5", "6", "7", "8", "9", ":", ";", "<", "=", ">", "?",
     "@", "A", "B", "C", "D", "E", "F", "G", "H", "I", "J", "K", "L", "M", "N", "O",
     "P", "Q", "R", "S", "T", "U", "V", "W", "X", "Y", "Z", "[", "bslash", "]", "^", "_",
     "bquote", "a", "b", "c", "d", "e", "f", "g", "h", "i", "j", "k", "l", "m", "n", "o",
     "p", "q", "r", "s", "t", "u", "v", "w", "x", "y", "z", "{", "|", "}", "~" >>

Chars == { Ascii[i] : i \in 1..Len(Ascii) }

\* String.prototype.charCodeAt for one character.
charCodeTable == [ c \in Chars |-> 31 + (CHOOSE i \in 1..Len(Ascii) : Ascii[i] = c) ]

charCodeAt(c) == charCodeTable[c]

\* String.prototype.toLowerCase for one character.
toLowerTable ==
  [ c \in Chars |->
      IF charCodeTable[c] >= 65 /\ charCodeTable[c] <= 90
        THEN Ascii[charCodeTable[c] + 32 - 31]
        ELSE c ]

\* String.prototype.toLowerCase, also lodash's _.toLower.
toLowerCase(s) == [ i \in 1..Len(s) |-> toLowerTable[s[i]] ]

\* lodash's _.startsWith(string, target).
startsWith(s, t) ==
  /\ Len(s) >= Len(t)
  /\ \A i \in 1..Len(t) : s[i] = t[i]

\* String.prototype.substring(from, to) with 0-based from (inclusive) and to
\* (exclusive), both already integers inside the string.
substring(s, from, to) ==
  IF to <= from THEN << >> ELSE SubSeq(s, from + 1, to)

\* String.prototype.indexOf: the 0-based index of the first occurrence of t in
\* s, -1 when there is none.
indexOf(s, t) ==
  LET hits == { i \in 0..(Len(s) - Len(t)) :
                  \A j \in 1..Len(t) : s[i + j] = t[j] }
  IN IF hits = {} THEN -1 ELSE CHOOSE i \in hits : \A k \in hits : i <= k

\* String.prototype.includes.
includes(s, t) == indexOf(s, t) # -1

\* String.prototype.split on a one-character separator: a sequence of strings.
RECURSIVE split(_, _)
split(s, sep) ==
  LET i == indexOf(s, << sep >>)
  IN IF i = -1
       THEN << s >>
       ELSE << substring(s, 0, i) >> \o split(substring(s, i + 1, Len(s)), sep)

\* Array.prototype.join of a sequence of strings.
RECURSIVE join(_, _)
join(parts, sep) ==
  IF Len(parts) = 0 THEN << >>
  ELSE IF Len(parts) = 1 THEN parts[1]
  ELSE parts[1] \o sep \o join(Tail(parts), sep)

\* The order of JavaScript's < on strings: by character code, a proper prefix
\* first.
RECURSIVE strLess(_, _)
strLess(a, b) ==
  IF Len(b) = 0 THEN FALSE
  ELSE IF Len(a) = 0 THEN TRUE
  ELSE IF a[1] # b[1] THEN charCodeAt(a[1]) < charCodeAt(b[1])
  ELSE strLess(Tail(a), Tail(b))

(***************************************************************************)
(* The libraries pathUtils.js builds on: url-parse, querystringify, lodash *)
(* and crypto-js, each modelled by what it does on the strings used here.  *)
(***************************************************************************)

LowerLetters == { Ascii[i] : i \in 66..91 }
UpperLetters == { Ascii[i] : i \in 34..59 }
Digits == { Ascii[i] : i \in 17..26 }

\* url-parse's extractProtocol: /^([a-z][a-z0-9.+-]*:)?(\/\/)?([\S\s]*)/i, the
\* protocol lowercased.
extractProtocol(address) ==
  LET schemeChars == LowerLetters \cup UpperLetters \cup Digits \cup {".", "+", "-"}
      c == indexOf(address, << ":" >>)
      hasProtocol ==
        /\ c >= 1
        /\ address[1] \in LowerLetters \cup UpperLetters
        /\ \A i \in 1..c : address[i] \in schemeChars
      afterProtocol == IF hasProtocol THEN substring(address, c + 1, Len(address)) ELSE address
      slashes == startsWith(afterProtocol, << "/", "/" >>)
  IN [ protocol |-> IF hasProtocol THEN toLowerCase(substring(address, 0, c + 1)) ELSE << >>,
       slashes |-> slashes,
       rest |-> IF slashes THEN substring(afterProtocol, 2, Len(afterProtocol)) ELSE afterProtocol ]

\* querystringify's parse: /([^=?#&]+)=?([^&]*)/g over the query, the first
\* occurrence of a key winning. An object is the sequence of its <<key, value>>
\* pairs in insertion order.
RECURSIVE querystring(_, _)
querystring(parts, result) ==
  IF Len(parts) = 0 THEN result
  ELSE LET part == parts[1]
           e == indexOf(part, << "=" >>)
           key == IF e = -1 THEN part ELSE substring(part, 0, e)
           value == IF e = -1 THEN << >> ELSE substring(part, e + 1, Len(part))
           known == \E i \in 1..Len(result) : result[i][1] = key
       IN querystring(Tail(parts),
                      IF Len(key) = 0 \/ known THEN result
                      ELSE Append(result, << key, value >>))

queryParse(query) ==
  LET q == IF startsWith(query, << "?" >>) THEN substring(query, 1, Len(query)) ELSE query
  IN querystring(split(q, "&"), << >>)

\* querystringify's stringify: key=value pairs joined by &.
querystringify(obj) ==
  join([ i \in 1..Len(obj) |-> obj[i][1] \o << "=" >> \o obj[i][2] ], << "&" >>)

\* url-parse: new URL(address, null, true). The address is cut at the first #,
\* then the first ?, then the first /; what is left is the host, lowercased;
\* the pathname of a URL with a host starts with /.
URLParse(address) ==
  LET Parsed(ep, hash, query, pathname, host) ==
        [ protocol |-> ep.protocol,
          slashes |-> ep.slashes,
          host |-> host,
          pathname |-> IF ~startsWith(pathname, << "/" >>) /\ Len(host) > 0
                         THEN << "/" >> \o pathname ELSE pathname,
          query |-> queryParse(query),
          hash |-> hash ]
      AtSlash(ep, hash, query, r2, p) ==
        Parsed(ep, hash, query,
               IF p = -1 THEN << >> ELSE substring(r2, p, Len(r2)),
               toLowerCase(IF p = -1 THEN r2 ELSE substring(r2, 0, p)))
      BeforeQuery(ep, hash, query, r2) ==
        AtSlash(ep, hash, query, r2, indexOf(r2, << "/" >>))
      AtQuery(ep, hash, r1, q) ==
        BeforeQuery(ep, hash,
                    IF q = -1 THEN << >> ELSE substring(r1, q, Len(r1)),
                    IF q = -1 THEN r1 ELSE substring(r1, 0, q))
      BeforeHash(ep, hash, r1) == AtQuery(ep, hash, r1, indexOf(r1, << "?" >>))
      AtHash(ep, h) ==
        BeforeHash(ep,
                   IF h = -1 THEN << >> ELSE substring(ep.rest, h, Len(ep.rest)),
                   IF h = -1 THEN ep.rest ELSE substring(ep.rest, 0, h))
      Rest(ep) == AtHash(ep, indexOf(ep.rest, << "#" >>))
  IN Rest(extractProtocol(address))

\* url-parse: url.toString().
URLToString(url) ==
  LET query == querystringify(url.query)
  IN url.protocol \o (IF url.slashes THEN << "/", "/" >> ELSE << >>) \o url.host
       \o url.pathname
       \o (IF Len(query) > 0 THEN << "?" >> \o query ELSE << >>)
       \o url.hash

\* lodash's _.pick(object, paths): the listed keys the object has, in the
\* order of the list.
RECURSIVE pick(_, _, _)
pick(obj, paths, result) ==
  IF Len(paths) = 0 THEN result
  ELSE LET found == { i \in 1..Len(obj) : obj[i][1] = paths[1] }
           known == \E i \in 1..Len(result) : result[i][1] = paths[1]
       IN pick(obj, Tail(paths),
               IF found = {} \/ known THEN result
               ELSE Append(result, obj[CHOOSE i \in found : TRUE]))

\* crypto-js SHA1 rendered as a string: an injective placeholder, the hashed
\* string between two marks that are no characters of any URL.
SHA1(s) == << "sha1(" >> \o s \o << ")sha1" >>

(***************************************************************************)
(* src/utils/pathUtils.js                                                  *)
(***************************************************************************)

\* The values of the option useQueryParamsInCacheKey: a boolean or an array
\* of parameter names (an array is truthy, also when empty).
QBool(b) == [ isArray |-> FALSE, truthy |-> b, names |-> << >> ]
QArray(names) == [ isArray |-> TRUE, truthy |-> TRUE, names |-> names ]

defaultImageTypes ==
  { << "p", "n", "g" >>, << "j", "p", "e", "g" >>, << "j", "p", "g" >>,
    << "g", "i", "f" >>, << "b", "m", "p" >>, << "t", "i", "f", "f" >>,
    << "t", "i", "f" >> }

\* lodash's sortBy is stable: a pair goes behind the pairs whose key is not
\* greater than its own.
RECURSIVE sortByKey(_, _)
sortByKey(pairs, sorted) ==
  IF Len(pairs) = 0 THEN sorted
  ELSE LET a == pairs[1]
           before == { i \in 1..Len(sorted) : ~strLess(a[1], sorted[i][1]) }
           n == Cardinality(before)
       IN sortByKey(Tail(pairs),
                    SubSeq(sorted, 1, n) \o << a >> \o SubSeq(sorted, n + 1, Len(sorted)))

\* The values of the object's entries, in the order of their keys.
serializeObjectKeys(obj) ==
  LET sorted == sortByKey(obj, << >>)
  IN [ i \in 1..Len(sorted) |-> sorted[i][2] ]

\* An array of values; the '' of the last return is the empty array here, the
\* two being the same text once appended to a string.
getQueryForCacheKey(url, useQueryParamsInCacheKey) ==
  IF useQueryParamsInCacheKey.isArray
    THEN serializeObjectKeys(pick(url.query, useQueryParamsInCacheKey.names, << >>))
  ELSE IF useQueryParamsInCacheKey.truthy
    THEN serializeObjectKeys(url.query)
  ELSE << >>

\* A fault: the hash is wrapped to 31 bits.
hashStepNarrow(h, code) ==
  [ hi |-> (31 * h.hi + ((31 * h.lo + code) \div 65536)) % 32768,
    lo |-> (31 * h.lo + code) % 65536 ]

\* One round of hashCode on a 32-bit value held as two 16-bit halves:
\* (Math.imul(31, h) + code) | 0.
hashStep(h, code) ==
  LET lo == 31 * h.lo + code
      hi == 31 * h.hi + (lo \div 65536)
  IN [ hi |-> hi % 65536, lo |-> lo % 65536 ]

RECURSIVE hashBits(_, _)
hashBits(s, h) ==
  IF Len(s) = 0 THEN h ELSE hashBits(Tail(s), hashStep(h, charCodeAt(s[1])))

\* The 32-bit signed integer hashCode returns.
hashCode(s) ==
  LET h == hashBits(s, [ hi |-> 0, lo |-> 0 ])
  IN (IF h.hi >= 32768 THEN h.hi - 65536 ELSE h.hi) * 65536 + h.lo

\* The decimal digits of q * 65536 + r >= 0, by long division.
RECURSIVE decimalDigits(_, _)
decimalDigits(q, r) ==
  LET t == (q % 10) * 65536 + r
      digit == << Ascii[17 + (t % 10)] >>
  IN IF q = 0 /\ r < 10 THEN digit
     ELSE decimalDigits(q \div 10, t \div 10) \o digit

\* The text of the sum of two 32-bit signed integers, as string + number
\* renders it: the sum is a double and is not wrapped to 32 bits.
sumToString(a, b) ==
  LET low == (a % 65536) + (b % 65536)
      q == (a \div 65536) + (b \div 65536) + (low \div 65536)
      r == low % 65536
  IN IF q >= 0 THEN decimalDigits(q, r)
     ELSE IF r = 0 THEN << "-" >> \o decimalDigits(-q, 0)
     ELSE << "-" >> \o decimalDigits(-q - 1, 65536 - r)

formulaFlag ==
  << "c", "g", "i", "-", "b", "i", "n", "/", "m", "a", "t", "h", ".", "c", "g", "i", "?" >>

generateCacheKey(url, useQueryParamsInCacheKey) ==
  LET MergeHashCode(formulaParams, half) ==
        sumToString(hashCode(substring(formulaParams, 0, half)),
                    hashCode(substring(formulaParams, half, Len(formulaParams))))
      Formula(formulaParams) == MergeHashCode(formulaParams, Len(formulaParams) \div 2)
      Key(type, cacheable) == SHA1(cacheable) \o << "." >> \o type
      Cacheable(parsedUrl, filePath, fileName, type) ==
        Key(type,
            IF includes(url, formulaFlag)
              THEN filePath \o fileName \o type
                     \o Formula(substring(url, indexOf(url, formulaFlag), Len(url)))
              ELSE filePath \o fileName \o type
                     \o join(getQueryForCacheKey(parsedUrl, useQueryParamsInCacheKey), << "," >>))
      Type(parsedUrl, filePath, fileName, fileType) ==
        Cacheable(parsedUrl, filePath, fileName,
                  IF fileType \in defaultImageTypes THEN fileType ELSE << "j", "p", "g" >>)
      FileType(parsedUrl, filePath, fileName, parts) ==
        Type(parsedUrl, filePath, fileName,
             IF Len(parts) > 1 THEN toLowerCase(parts[Len(parts)]) ELSE << >>)
      FileName(parsedUrl, filePath, fileName) ==
        FileType(parsedUrl, filePath, fileName, split(fileName, "."))
      PathParts(parsedUrl, pathParts) ==
        FileName(parsedUrl,
                 join(SubSeq(pathParts, 1, Len(pathParts) - 1), << "/" >>),
                 pathParts[Len(pathParts)])
      Parsed(parsedUrl) == PathParts(parsedUrl, split(parsedUrl.pathname, "/"))
  IN Parsed(URLParse(url))

\* host.replace(/\.:/gi, '_'): every "." followed by ":" becomes one "_".
RECURSIVE replaceDotColon(_)
replaceDotColon(host) ==
  IF Len(host) = 0 THEN << >>
  ELSE IF startsWith(host, << ".", ":" >>)
    THEN << "_" >> \o replaceDotColon(substring(host, 2, Len(host)))
  ELSE << host[1] >> \o replaceDotColon(Tail(host))

getHostCachePathComponent(url) ==
  LET kept == LowerLetters \cup UpperLetters \cup Digits \cup { "_" }
      Replaced(dotted) ==
        [ i \in 1..Len(dotted) |-> IF dotted[i] \in kept THEN dotted[i] ELSE "_" ]
      Component(host) ==
        toLowerCase(Replaced(replaceDotColon(host))) \o << "_" >> \o SHA1(host)
  IN Component(URLParse(url).host)

getImageFilePath(url, cacheLocation) ==
  LET hostCachePath == getHostCachePathComponent(url)
      cacheKey == generateCacheKey(url, QBool(TRUE))
  IN cacheLocation \o << "/" >> \o hostCachePath \o << "/" >> \o cacheKey

getImageRelativeFilePath(url) ==
  LET hostCachePath == getHostCachePathComponent(url)
      cacheKey == generateCacheKey(url, QBool(TRUE))
  IN hostCachePath \o << "/" >> \o cacheKey

\* A fault: the query is kept whatever useQueryParamsInCacheKey says.
getCacheableUrlKeepQuery(url, useQueryParamsInCacheKey) == URLToString(URLParse(url))

getCacheableUrl(url, useQueryParamsInCacheKey) ==
  LET Stripped(picked) ==
        URLToString(IF ~useQueryParamsInCacheKey.truthy
                      THEN [ picked EXCEPT !.query = << >> ]
                      ELSE picked)
      Picked(parsedUrl) ==
        Stripped(IF useQueryParamsInCacheKey.isArray
                   THEN [ parsedUrl EXCEPT !.query =
                            pick(parsedUrl.query, useQueryParamsInCacheKey.names, << >>) ]
                   ELSE parsedUrl)
  IN Picked(URLParse(url))

(***************************************************************************)
(* src/unnamed/part_000: the cache manager                                 *)
(*                                                                         *)
(* Every call of a collaborator (urlCache, fs) is one step: the promise    *)
(* chain of an operation yields between them, so the steps of concurrent   *)
(* operations interleave.                                                  *)
(***************************************************************************)

\* ---- bounds of the model ----
\* Seconds the clock may advance.
MaxTime == 2

\* ---- inputs ----
Procs == { "p1", "p2" }

Str(v) == [ type |-> "string", val |-> v ]

\* "http://h/a.png?x=1"
UrlA == Str(<< "h", "t", "t", "p", ":", "/", "/", "h", "/", "a", ".", "p", "n", "g", "?", "x", "=", "1" >>)
\* "HTTP://h/a.png"
UrlB == Str(<< "H", "T", "T", "P", ":", "/", "/", "h", "/", "a", ".", "p", "n", "g" >>)
\* "ftp://x", 42, null
UrlFtp == Str(<< "f", "t", "p", ":", "/", "/", "x" >>)
Url42 == [ type |-> "number", val |-> << "4", "2" >> ]
UrlNull == [ type |-> "null", val |-> << >> ]

\* "http://h/a.png?x=2": UrlA but for the value of x
UrlC == Str(<< "h", "t", "t", "p", ":", "/", "/", "h", "/", "a", ".", "p", "n", "g", "?", "x", "=", "2" >>)

\* The callers run one operation at a time, on all the inputs ("sequential")
\* or on two URLs that differ in one query parameter ("variants"), or two
\* operations at once on one URL, of any kind ("concurrent") or of the kinds
\* that go through cacheUrl, with no deletion from outside ("race").
Scenarios == { "sequential", "variants", "concurrent", "race" }

Callers(s) == IF s \in { "sequential", "variants" } THEN { "p1" } ELSE Procs

Urls(s) ==
  IF s = "sequential" THEN { UrlA, UrlB, UrlFtp, Url42, UrlNull }
  ELSE IF s = "variants" THEN { UrlA, UrlC }
  ELSE { UrlB }

Operations(s) ==
  IF s = "variants" THEN { "downloadAndCacheUrl", "deleteUrl" }
  ELSE IF s = "race" THEN { "isCachedURL", "downloadAndCacheUrl", "seedAndCacheUrl" }
  ELSE { "isCachedURL", "downloadAndCacheUrl", "seedAndCacheUrl", "deleteUrl",
         "clearCache", "getCacheInfo" }

\* Whether files are deleted behind the back of the manager.
OutOfBand(s) == s # "race"

\* An options object is a function from the names of the fields it has.
EmptyObject == [ k \in {} |-> TRUE ]

AltLocation == << "/", "a", "l", "t" >>

WithTtl == [ ttl |-> 1, headers |-> { "Authorization" }, allowSelfSignedSSL |-> TRUE ]
WithQuery == [ useQueryParamsInCacheKey |-> QBool(TRUE), cacheLocation |-> AltLocation ]

WithNames == [ useQueryParamsInCacheKey |-> QArray(<< << "y" >> >>) ]

CallerOptions(s) ==
  IF s = "sequential" THEN { EmptyObject, WithTtl, WithQuery }
  ELSE IF s = "variants" THEN { EmptyObject, WithNames }
  ELSE IF s = "concurrent" THEN { EmptyObject, WithTtl }
  ELSE { EmptyObject }

\* What the factory may be given as defaultOptions.
FactoryOptions(s) == IF s = "sequential" THEN { EmptyObject, [ ttl |-> 2 ] } ELSE { EmptyObject }

SeedPath == << "/", "s", "e", "e", "d" >>

\* fs.getCacheDir()
getCacheDir == << "/", "c", "a", "c", "h", "e" >>

\* A fault: any string passes.
isCacheableAnyString(url) == url.type = "string"

Http == << "h", "t", "t", "p", ":", "/", "/" >>
Https == << "h", "t", "t", "p", "s", ":", "/", "/" >>

isCacheable(url) ==
  /\ url.type = "string"
  /\ \/ startsWith(toLowerCase(url.val), Http)
     \/ startsWith(toLowerCase(url.val), Https)

\* ---- the key deriver on the inputs, computed once ----
AllUrls == UNION { Urls(s) : s \in Scenarios }
AllOptions == UNION { CallerOptions(s) : s \in Scenarios }
AllQueryModes ==
  { QBool(FALSE) } \cup
  { o.useQueryParamsInCacheKey : o \in { x \in AllOptions : "useQueryParamsInCacheKey" \in DOMAIN x } }
AllLocations ==
  { getCacheDir } \cup { o.cacheLocation : o \in { x \in AllOptions : "cacheLocation" \in DOMAIN x } }

CacheableUrls == { u \in AllUrls : isCacheable(u) }

cacheableUrlTable ==
  { << u.val, q, getCacheableUrl(u.val, q) >> : u \in CacheableUrls, q \in AllQueryModes }

relativeFilePathTable ==
  { << t[3], getImageRelativeFilePath(t[3]) >> : t \in cacheableUrlTable }

imageFilePathTable ==
  { << t[3], l, getImageFilePath(t[3], l) >> : t \in cacheableUrlTable, l \in AllLocations }

\* path.getCacheableUrl, path.getImageRelativeFilePath and
\* path.getImageFilePath as the manager calls them.
pathGetCacheableUrl(url, useQueryParamsInCacheKey) ==
  (CHOOSE t \in cacheableUrlTable : t[1] = url /\ t[2] = useQueryParamsInCacheKey)[3]

pathGetImageRelativeFilePath(url) ==
  (CHOOSE t \in relativeFilePathTable : t[1] = url)[2]

pathGetImageFilePath(url, cacheLocation) ==
  (CHOOSE t \in imageFilePathTable : t[1] = url /\ t[2] = cacheLocation)[3]

\* ---- collaborators ----
\* lodash's _.defaults(object, source): the fields object lacks are taken from
\* source; the result is object itself, changed in place.
defaults(object, source) ==
  [ k \in DOMAIN object \cup DOMAIN source |->
      IF k \in DOMAIN object THEN object[k] ELSE source[k] ]

defaultDefaultOptions ==
  [ headers |-> {},
    ttl |-> 60 * 60 * 24 * 14,
    useQueryParamsInCacheKey |-> QBool(FALSE),
    cacheLocation |-> getCacheDir,
    allowSelfSignedSSL |-> FALSE ]

VARIABLES
  scenario,        \* how the callers run, fixed from the start
  defaultOptions,  \* the factory's defaultOptions object
  store,           \* urlCache: cacheable URL -> [path, expires]
  files,           \* the paths at which the filesystem holds a file
  now,             \* the clock, in seconds
  proc,            \* per caller: the operation in flight and where it stands
  done,            \* the operation that settled in the last step, as it ended
  prev,            \* the download or deletion that settled last, undisturbed since
  derive           \* the last call of a pathUtils function on its own, and what it returned

vars == << scenario, defaultOptions, store, files, now, proc, done, prev, derive >>

Undefined == << >>

\* What a promise settles with: a path, a boolean, nothing, directory
\* statistics, or (rejected) an error.
NoResult == [ kind |-> "none", path |-> << >>, bool |-> FALSE, error |-> "", count |-> 0 ]
PathResult(path) == [ NoResult EXCEPT !.kind = "path", !.path = path ]
BoolResult(b) == [ NoResult EXCEPT !.kind = "boolean", !.bool = b ]
VoidResult == [ NoResult EXCEPT !.kind = "void" ]
InfoResult(n) == [ NoResult EXCEPT !.kind = "info", !.count = n ]
ErrorResult(e) == [ NoResult EXCEPT !.kind = "error", !.error = e ]

NotCacheable == "Url is not cacheable"
DownloadFailed == "downloadFile failed"
CopyFailed == "copyFile failed"
FlushFailed == "flush failed"

\* The store, the files and the clock as an operation found them.
NoSnapshot == [ store |-> [ k \in {} |-> TRUE ], files |-> {}, now |-> 0 ]

\* The operation another one follows: its name, arguments and path.
NoPrev == [ known |-> FALSE, op |-> "none", url |-> [ type |-> "null", val |-> << >> ],
            given |-> [ k \in {} |-> TRUE ], path |-> << >> ]

\* A caller: the operation op(url, given) it runs, the options object as the
\* operation left it, the locals of the operation, what it settled with, the
\* collaborator calls it made (io), and whether it ran alone, with nothing
\* else in flight and no change from outside, from the state pre on, right
\* after the operation named by after.
IdleProc ==
  [ pc |-> "idle", op |-> "none", url |-> UrlNull, given |-> EmptyObject,
    options |-> EmptyObject, cacheableUrl |-> << >>, fileRelativePath |-> << >>,
    filePath |-> << >>, noCached |-> FALSE, result |-> NoResult, io |-> << >>,
    alone |-> TRUE, pre |-> NoSnapshot, after |-> NoPrev ]

Settled == { "resolved", "rejected" }

\* No pathUtils function has been called on its own.
NoDerive ==
  [ fn |-> "none", url1 |-> << >>, url2 |-> << >>, mode |-> QBool(FALSE),
    out1 |-> << >>, out2 |-> << >> ]

InFlight(p) == proc[p].pc # "idle"

Init ==
  /\ scenario \in Scenarios
  /\ \E o \in FactoryOptions(scenario) : defaultOptions = defaults(o, defaultDefaultOptions)
  /\ store = [ k \in {} |-> TRUE ]
  /\ files = {}
  /\ now = 0
  /\ proc = [ p \in Procs |-> IdleProc ]
  /\ done = IdleProc
  /\ prev = NoPrev
  /\ derive = NoDerive

\* ---- the collaborators: urlCache (MemoryCache) and fs (fsUtils) ----

\* urlCache.get(key): the value, undefined for a key that is absent or expired.
urlCacheGet(key) ==
  IF key \in DOMAIN store /\ now < store[key].expires THEN store[key].path ELSE Undefined

\* urlCache.get drops an entry it finds expired.
urlCacheAfterGet(key) ==
  IF key \in DOMAIN store /\ ~(now < store[key].expires)
    THEN [ k \in DOMAIN store \ { key } |-> store[k] ]
    ELSE store

\* urlCache.set(key, value, ttl)
urlCacheSet(key, value, ttl) ==
  [ k \in DOMAIN store \cup { key } |->
      IF k = key THEN [ path |-> value, expires |-> now + ttl ] ELSE store[k] ]

\* urlCache.remove(key)
urlCacheRemove(key) == [ k \in DOMAIN store \ { key } |-> store[k] ]

\* urlCache.flush()
urlCacheFlush == [ k \in {} |-> TRUE ]

\* fs.exists(path)
fsExists(path) == path \in files

\* fs.deleteFile(path): no error when there is no file.
fsDeleteFile(path) == files \ { path }

\* fs.downloadFile and fs.copyFile, when they succeed, leave a file at the
\* destination.
fsWriteFile(path) == files \cup { path }

\* fs.cleanDir(dir): no file is left under dir.
fsCleanDir(dir) == { f \in files : ~startsWith(f, dir \o << "/" >>) }

\* fs.getDirInfo(dir): the number of files under dir.
fsGetDirInfo(dir) == Cardinality({ f \in files : startsWith(f, dir \o << "/" >>) })

\* ---- bookkeeping of the operations ----
Log(r, fn, args) == [ r EXCEPT !.io = Append(@, [ fn |-> fn, args |-> args ]) ]

\* A settled promise runs its caller's callback before anything else happens.
Delivered == done.pc = "idle"

Others(p) == \E q \in Procs \ { p } : InFlight(q)

\* Two URLs that differ only in the value of the query parameter x.
Variants == { UrlA, UrlC }
VariantParam == << "x" >>

\* Whether useQueryParamsInCacheKey leaves the parameter out of the key:
\* false leaves all out, an array those it does not list.
Excluded(name, useQueryParamsInCacheKey) ==
  IF useQueryParamsInCacheKey.isArray
    THEN \A i \in 1..Len(useQueryParamsInCacheKey.names) :
           useQueryParamsInCacheKey.names[i] # name
    ELSE ~useQueryParamsInCacheKey.truthy

\* Operation r comes right after the operation prev names: with the same
\* arguments, or on a URL that differs in an excluded parameter, a probe or a
\* download after a download; with the same arguments a probe after a
\* deletion; any probe after a clearCache.
Follows(r, before) ==
  /\ before.known
  /\ \/ /\ \/ r.url = before.url
           \/ /\ { r.url, before.url } = Variants
              /\ Excluded(VariantParam, r.options.useQueryParamsInCacheKey)
        /\ r.given = before.given
        /\ \/ before.op = "downloadAndCacheUrl" /\ r.op \in { "isCachedURL", "downloadAndCacheUrl" }
           \/ before.op = "deleteUrl" /\ r.op = "isCachedURL"
     \/ before.op = "clearCache" /\ r.op = "isCachedURL"

\* What prev is once r has settled.
PrevAfter(r) ==
  IF r.alone /\ r.pc = "resolved" /\ r.op = "downloadAndCacheUrl"
    THEN [ known |-> TRUE, op |-> r.op, url |-> r.url, given |-> r.given,
           path |-> r.result.path ]
  ELSE IF r.alone /\ r.pc = "resolved" /\ r.op \in { "deleteUrl", "clearCache" }
    THEN [ known |-> TRUE, op |-> r.op, url |-> r.url, given |-> r.given, path |-> << >> ]
  ELSE IF r.alone /\ r.op = "isCachedURL" /\ r.after.op = "downloadAndCacheUrl"
    THEN r.after
  ELSE NoPrev

Disturb(r) == [ r EXCEPT !.alone = FALSE, !.pre = NoSnapshot, !.after = NoPrev ]

\* Caller p starts an operation that stands at r after its synchronous part.
Begin(p, r) ==
  /\ Delivered
  /\ p \in Callers(scenario)
  /\ ~InFlight(p)
  /\ scenario' = scenario
  /\ derive' = derive
  /\ LET started ==
           IF Others(p)
             THEN [ r EXCEPT !.alone = FALSE,
                             !.pre = IF r.pc \in Settled
                                       THEN [ store |-> store, files |-> files, now |-> now ]
                                       ELSE NoSnapshot ]
             ELSE [ r EXCEPT !.alone = TRUE,
                             !.pre = [ store |-> store, files |-> files, now |-> now ],
                             !.after = IF Follows(r, prev) THEN prev ELSE NoPrev ]
     IN /\ proc' = [ q \in Procs |->
                       IF q = p THEN (IF started.pc \in Settled THEN IdleProc ELSE started)
                       ELSE IF InFlight(q) THEN Disturb(proc[q])
                       ELSE proc[q] ]
        /\ done' = IF started.pc \in Settled THEN started ELSE IdleProc
        /\ prev' = IF started.pc \in Settled THEN NoPrev ELSE started.after

\* The operation of caller p moves on to r.
Step(p, r) ==
  /\ Delivered
  /\ proc' = [ proc EXCEPT ![p] = IF r.pc \in Settled THEN IdleProc ELSE r ]
  /\ done' = IF r.pc \in Settled THEN r ELSE IdleProc
  /\ prev' = IF r.pc \in Settled THEN PrevAfter(r) ELSE prev
  /\ scenario' = scenario
  /\ derive' = derive

\* Something outside the operations happened: those in flight did not run
\* undisturbed.
Disturbed ==
  /\ Delivered
  /\ proc' = [ q \in Procs |-> IF InFlight(q) THEN Disturb(proc[q]) ELSE proc[q] ]
  /\ done' = IdleProc
  /\ prev' = NoPrev
  /\ scenario' = scenario
  /\ derive' = derive

Resolve(r, result) == [ r EXCEPT !.pc = "resolved", !.result = result ]
Reject(r, error) == [ r EXCEPT !.pc = "rejected", !.result = ErrorResult(error) ]

Called(op, url, given) ==
  [ IdleProc EXCEPT !.op = op, !.url = url, !.given = given, !.options = given ]

\* ---- the manager ----
\* `${options.cacheLocation}/${fileRelativePath}`
PathIn(cacheLocation, fileRelativePath) == cacheLocation \o << "/" >> \o fileRelativePath

\* cacheUrl up to its call of urlCache.get.
cacheUrl(op, url, options) ==
  IF url \notin CacheableUrls
    THEN Reject(Called(op, url, options), NotCacheable)
    ELSE LET merged == defaults(options, defaultOptions)
             cacheableUrl == pathGetCacheableUrl(url.val, merged.useQueryParamsInCacheKey)
         IN [ Called(op, url, options) EXCEPT
                !.pc = "get", !.options = merged, !.cacheableUrl = cacheableUrl ]

\* A fault: noCached handed on without the negation.
OutcomeNotNegated(r) ==
  IF r.op = "isCachedURL" THEN BoolResult(r.noCached) ELSE PathResult(r.filePath)

\* What cacheUrl resolves with, as the operation hands it to its caller:
\* isCachedURL turns it into !noCached.
Outcome(r) ==
  IF r.op = "isCachedURL" THEN BoolResult(~r.noCached) ELSE PathResult(r.filePath)

\* A fault: the path is derived from the URL as given, not from the
\* cacheable URL.
MissGivenUrl(r) ==
  [ r EXCEPT !.pc = "deleteFile",
             !.fileRelativePath = getImageRelativeFilePath(r.url.val),
             !.filePath = PathIn(r.options.cacheLocation, getImageRelativeFilePath(r.url.val)) ]

\* The catch of cacheUrl: the miss path, up to its call of fs.deleteFile.
Miss(r) ==
  LET fileRelativePath == pathGetImageRelativeFilePath(r.cacheableUrl)
  IN [ r EXCEPT !.pc = "deleteFile",
                !.fileRelativePath = fileRelativePath,
                !.filePath = PathIn(r.options.cacheLocation, fileRelativePath) ]

\* The then of urlCache.get.
AfterGet(r, fileRelativePath) ==
  IF Len(fileRelativePath) = 0
    THEN Miss(r)
    ELSE [ r EXCEPT !.pc = "exists",
                    !.fileRelativePath = fileRelativePath,
                    !.filePath = PathIn(r.options.cacheLocation, fileRelativePath) ]

\* Faults of the then of fs.exists: the file is never believed to be there;
\* the error of a missing file is not caught.
AfterExistsNeverHit(r, exists) == Miss(r)

AfterExistsUncaught(r, exists) ==
  IF exists THEN Resolve(r, Outcome(r))
  ELSE Reject(r, "file under URL stored in url cache doesn't exsts")

\* The then of fs.exists.
AfterExists(r, exists) ==
  IF exists THEN Resolve(r, Outcome(r)) ELSE Miss(r)

\* A fault: without a ttl of the caller the record is written with the
\* built-in TTL, whatever the defaultOptions of the factory say.
setArgsBuiltInTtl(r) ==
  << r.cacheableUrl, r.fileRelativePath,
     IF "ttl" \in DOMAIN r.given THEN r.given.ttl ELSE defaultDefaultOptions.ttl >>

\* A fault: source and destination of the copy are swapped.
copyFileArgsSwapped(r) == << r.filePath, SeedPath >>

\* The arguments of fs.downloadFile, fs.copyFile and urlCache.set.
downloadFileArgs(r) == << r.url.val, r.filePath, r.options.headers >>
copyFileArgs(r) == << SeedPath, r.filePath >>
setArgs(r) == << r.cacheableUrl, r.fileRelativePath, r.options.ttl >>

isCachedURL(p) ==
  /\ "isCachedURL" \in Operations(scenario)
  /\ \E url \in Urls(scenario), options \in CallerOptions(scenario) :
       /\ Begin(p, cacheUrl("isCachedURL", url, options))
       /\ UNCHANGED << defaultOptions, store, files, now >>

downloadAndCacheUrl(p) ==
  /\ "downloadAndCacheUrl" \in Operations(scenario)
  /\ \E url \in Urls(scenario), options \in CallerOptions(scenario) :
       /\ Begin(p, cacheUrl("downloadAndCacheUrl", url, options))
       /\ UNCHANGED << defaultOptions, store, files, now >>

seedAndCacheUrl(p) ==
  /\ "seedAndCacheUrl" \in Operations(scenario)
  /\ \E url \in Urls(scenario), options \in CallerOptions(scenario) :
       /\ Begin(p, cacheUrl("seedAndCacheUrl", url, options))
       /\ UNCHANGED << defaultOptions, store, files, now >>

\* urlCache.get(cacheableUrl) answers.
CacheUrlGet(p) ==
  LET r == proc[p]
  IN /\ r.pc = "get"
     /\ Step(p, AfterGet(Log(r, "get", << r.cacheableUrl >>), urlCacheGet(r.cacheableUrl)))
     /\ store' = urlCacheAfterGet(r.cacheableUrl)
     /\ UNCHANGED << defaultOptions, files, now >>

\* A fault: a hit writes the record again, which renews its expiry.
CacheUrlExistsRenewing(p) ==
  LET r == proc[p]
  IN /\ r.pc = "exists"
     /\ Step(p, AfterExists(Log(r, "exists", << r.filePath >>), fsExists(r.filePath)))
     /\ store' = IF fsExists(r.filePath)
                   THEN urlCacheSet(r.cacheableUrl, r.fileRelativePath, r.options.ttl)
                   ELSE store
     /\ UNCHANGED << defaultOptions, files, now >>

\* fs.exists(cachedFilePath) answers.
CacheUrlExists(p) ==
  LET r == proc[p]
  IN /\ r.pc = "exists"
     /\ Step(p, AfterExists(Log(r, "exists", << r.filePath >>), fsExists(r.filePath)))
     /\ UNCHANGED << defaultOptions, store, files, now >>

\* fs.deleteFile(filePath) of the miss path is done.
CacheUrlDeleteFile(p) ==
  LET r == proc[p]
  IN /\ r.pc = "deleteFile"
     /\ files' = fsDeleteFile(r.filePath)
     /\ Step(p, [ Log(r, "deleteFile", << r.filePath >>) EXCEPT !.pc = "getCachedFile" ])
     /\ UNCHANGED << defaultOptions, store, now >>

\* getCachedFile of isCachedURL: noCached = true, no file is made.
IsCachedURLCallback(p) ==
  LET r == proc[p]
  IN /\ r.pc = "getCachedFile"
     /\ r.op = "isCachedURL"
     /\ Step(p, [ r EXCEPT !.pc = "set", !.noCached = TRUE ])
     /\ UNCHANGED << defaultOptions, store, files, now >>

\* A fault: the record is written without waiting for the download.
DownloadFileRecordedFirst(p) ==
  LET r == Log(proc[p], "downloadFile", << proc[p].url.val, proc[p].filePath, proc[p].options.headers >>)
  IN /\ proc[p].pc = "getCachedFile"
     /\ proc[p].op = "downloadAndCacheUrl"
     /\ store' = urlCacheSet(r.cacheableUrl, r.fileRelativePath, r.options.ttl)
     /\ \/ /\ files' = fsWriteFile(r.filePath)
           /\ Step(p, [ r EXCEPT !.pc = "set" ])
        \/ /\ files' = files
           /\ Step(p, Reject(r, DownloadFailed))
     /\ UNCHANGED << defaultOptions, now >>

\* getCachedFile of downloadAndCacheUrl: fs.downloadFile succeeds, or fails
\* and may leave a partly written file.
DownloadFile(p) ==
  LET r == Log(proc[p], "downloadFile", downloadFileArgs(proc[p]))
  IN /\ proc[p].pc = "getCachedFile"
     /\ proc[p].op = "downloadAndCacheUrl"
     /\ \/ /\ files' = fsWriteFile(r.filePath)
           /\ Step(p, [ r EXCEPT !.pc = "set" ])
        \/ /\ \E partial \in BOOLEAN :
                files' = IF partial THEN fsWriteFile(r.filePath) ELSE files
           /\ Step(p, Reject(r, DownloadFailed))
     /\ UNCHANGED << defaultOptions, store, now >>

\* getCachedFile of seedAndCacheUrl: fs.copyFile succeeds or fails.
CopyFile(p) ==
  LET r == Log(proc[p], "copyFile", copyFileArgs(proc[p]))
  IN /\ proc[p].pc = "getCachedFile"
     /\ proc[p].op = "seedAndCacheUrl"
     /\ \/ /\ files' = fsWriteFile(r.filePath)
           /\ Step(p, [ r EXCEPT !.pc = "set" ])
        \/ /\ files' = files
           /\ Step(p, Reject(r, CopyFailed))
     /\ UNCHANGED << defaultOptions, store, now >>

\* A fault: a record that is already there is kept.
CacheUrlSetIfAbsent(p) ==
  LET r == Log(proc[p], "set", << proc[p].cacheableUrl, proc[p].fileRelativePath, proc[p].options.ttl >>)
  IN /\ proc[p].pc = "set"
     /\ store' = IF r.cacheableUrl \in DOMAIN store THEN store
                 ELSE urlCacheSet(r.cacheableUrl, r.fileRelativePath, r.options.ttl)
     /\ Step(p, Resolve(r, Outcome(r)))
     /\ UNCHANGED << defaultOptions, files, now >>

\* urlCache.set(cacheableUrl, fileRelativePath, options.ttl) is done and the
\* operation resolves.
CacheUrlSet(p) ==
  LET r == Log(proc[p], "set", setArgs(proc[p]))
      args == setArgs(proc[p])
  IN /\ proc[p].pc = "set"
     /\ store' = urlCacheSet(args[1], args[2], args[3])
     /\ Step(p, Resolve(r, Outcome(r)))
     /\ UNCHANGED << defaultOptions, files, now >>

\* A fault: the file path is derived from the URL as given, not from the
\* cacheable URL.
deleteUrlEnterRawUrl(url, options) ==
  IF url \notin CacheableUrls
    THEN Reject(Called("deleteUrl", url, options), NotCacheable)
    ELSE LET merged == defaults(options, defaultOptions)
             cacheableUrl == pathGetCacheableUrl(url.val, merged.useQueryParamsInCacheKey)
         IN [ Called("deleteUrl", url, options) EXCEPT
                !.pc = "remove", !.options = merged, !.cacheableUrl = cacheableUrl,
                !.filePath = getImageFilePath(url.val, merged.cacheLocation) ]

\* deleteUrl up to its call of urlCache.remove.
deleteUrlEnter(url, options) ==
  IF url \notin CacheableUrls
    THEN Reject(Called("deleteUrl", url, options), NotCacheable)
    ELSE LET merged == defaults(options, defaultOptions)
             cacheableUrl == pathGetCacheableUrl(url.val, merged.useQueryParamsInCacheKey)
         IN [ Called("deleteUrl", url, options) EXCEPT
                !.pc = "remove", !.options = merged, !.cacheableUrl = cacheableUrl,
                !.filePath = pathGetImageFilePath(cacheableUrl, merged.cacheLocation) ]

deleteUrl(p) ==
  /\ "deleteUrl" \in Operations(scenario)
  /\ \E url \in Urls(scenario), options \in CallerOptions(scenario) :
       /\ Begin(p, deleteUrlEnter(url, options))
       /\ UNCHANGED << defaultOptions, store, files, now >>

\* urlCache.remove(cacheableUrl) is done.
DeleteUrlRemove(p) ==
  LET r == proc[p]
  IN /\ r.pc = "remove"
     /\ store' = urlCacheRemove(r.cacheableUrl)
     /\ Step(p, [ Log(r, "remove", << r.cacheableUrl >>) EXCEPT !.pc = "unlink" ])
     /\ UNCHANGED << defaultOptions, files, now >>

\* fs.deleteFile(filePath) of deleteUrl is done and the operation resolves.
DeleteUrlDeleteFile(p) ==
  LET r == proc[p]
  IN /\ r.pc = "unlink"
     /\ files' = fsDeleteFile(r.filePath)
     /\ Step(p, Resolve(Log(r, "deleteFile", << r.filePath >>), VoidResult))
     /\ UNCHANGED << defaultOptions, store, now >>

clearCache(p) ==
  /\ "clearCache" \in Operations(scenario)
  /\ \E options \in CallerOptions(scenario) :
       /\ Begin(p, [ Called("clearCache", UrlNull, options) EXCEPT
                       !.pc = "flush", !.options = defaults(options, defaultOptions) ])
       /\ UNCHANGED << defaultOptions, store, files, now >>

\* A fault: the directory is emptied whether or not the flush went through.
ClearCacheFlushUnchecked(p) ==
  LET r == Log(proc[p], "flush", << >>)
  IN /\ proc[p].pc = "flush"
     /\ \E flushed \in BOOLEAN : store' = IF flushed THEN urlCacheFlush ELSE store
     /\ Step(p, [ r EXCEPT !.pc = "cleanDir" ])
     /\ UNCHANGED << defaultOptions, files, now >>

\* urlCache.flush() is done, or fails.
ClearCacheFlush(p) ==
  LET r == Log(proc[p], "flush", << >>)
  IN /\ proc[p].pc = "flush"
     /\ \/ /\ store' = urlCacheFlush
           /\ Step(p, [ r EXCEPT !.pc = "cleanDir" ])
        \/ /\ store' = store
           /\ Step(p, Reject(r, FlushFailed))
     /\ UNCHANGED << defaultOptions, files, now >>

\* fs.cleanDir(options.cacheLocation) is done and the operation resolves.
ClearCacheCleanDir(p) ==
  LET r == proc[p]
  IN /\ r.pc = "cleanDir"
     /\ files' = fsCleanDir(r.options.cacheLocation)
     /\ Step(p, Resolve(Log(r, "cleanDir", << r.options.cacheLocation >>), VoidResult))
     /\ UNCHANGED << defaultOptions, store, now >>

getCacheInfo(p) ==
  /\ "getCacheInfo" \in Operations(scenario)
  /\ \E options \in CallerOptions(scenario) :
       /\ Begin(p, [ Called("getCacheInfo", UrlNull, options) EXCEPT
                       !.pc = "getDirInfo", !.options = defaults(options, defaultOptions) ])
       /\ UNCHANGED << defaultOptions, store, files, now >>

\* fs.getDirInfo(options.cacheLocation) answers.
GetCacheInfoDirInfo(p) ==
  LET r == proc[p]
  IN /\ r.pc = "getDirInfo"
     /\ Step(p, Resolve(Log(r, "getDirInfo", << r.options.cacheLocation >>),
                        InfoResult(fsGetDirInfo(r.options.cacheLocation))))
     /\ UNCHANGED << defaultOptions, store, files, now >>

\* The caller has taken the result of the operation that settled.
Return ==
  /\ ~Delivered
  /\ done' = IdleProc
  /\ UNCHANGED << scenario, defaultOptions, store, files, now, proc, prev, derive >>

\* ---- the environment ----
\* A second passes.
Tick ==
  /\ now < MaxTime
  /\ now' = now + 1
  /\ Disturbed
  /\ UNCHANGED << defaultOptions, store, files >>

\* A cached file is deleted out-of-band.
ExternalDelete ==
  \E f \in files :
    /\ OutOfBand(scenario)
    /\ files' = files \ { f }
    /\ Disturbed
    /\ UNCHANGED << defaultOptions, store, now >>

Next ==
  \/ \E p \in Procs : isCachedURL(p)
  \/ \E p \in Procs : downloadAndCacheUrl(p)
  \/ \E p \in Procs : seedAndCacheUrl(p)
  \/ \E p \in Procs : deleteUrl(p)
  \/ \E p \in Procs : clearCache(p)
  \/ \E p \in Procs : getCacheInfo(p)
  \/ \E p \in Procs : CacheUrlGet(p)
  \/ \E p \in Procs : CacheUrlExists(p)
  \/ \E p \in Procs : CacheUrlDeleteFile(p)
  \/ \E p \in Procs : IsCachedURLCallback(p)
  \/ \E p \in Procs : DownloadFile(p)
  \/ \E p \in Procs : CopyFile(p)
  \/ \E p \in Procs : CacheUrlSet(p)
  \/ \E p \in Procs : DeleteUrlRemove(p)
  \/ \E p \in Procs : DeleteUrlDeleteFile(p)
  \/ \E p \in Procs : ClearCacheFlush(p)
  \/ \E p \in Procs : ClearCacheCleanDir(p)
  \/ \E p \in Procs : GetCacheInfoDirInfo(p)
  \/ Return
  \/ Tick
  \/ ExternalDelete

Spec == Init /\ [][Next]_vars

(***************************************************************************)
(* src/utils/pathUtils.js on its own: its exported functions called on     *)
(* pairs of URLs.                                                          *)
(***************************************************************************)

\* "http://h", "/a.png?", "/cgi-bin/math.cgi?"
Origin == << "h", "t", "t", "p", ":", "/", "/", "h" >>
ImageQuery == Origin \o << "/", "a", ".", "p", "n", "g", "?" >>
FormulaQuery == Origin \o << "/" >> \o formulaFlag

\* The queries a=1&b=2, b=2&a=1, a=1, b=1, x=1, x=2, Aa, BB.
Queries ==
  { << "a", "=", "1", "&", "b", "=", "2" >>, << "b", "=", "2", "&", "a", "=", "1" >>,
    << "a", "=", "1" >>, << "b", "=", "1" >>,
    << "x", "=", "1" >>, << "x", "=", "2" >>, << "A", "a" >>, << "B", "B" >> }

PathUrls == { ImageQuery \o q : q \in Queries } \cup { FormulaQuery \o q : q \in Queries }

PathModes == { QBool(FALSE), QBool(TRUE), QArray(<< << "a" >> >>) }

InitPath ==
  /\ scenario = "sequential"
  /\ defaultOptions = defaults(EmptyObject, defaultDefaultOptions)
  /\ store = [ k \in {} |-> TRUE ]
  /\ files = {}
  /\ now = 0
  /\ proc = [ p \in Procs |-> IdleProc ]
  /\ done = IdleProc
  /\ prev = NoPrev
  /\ derive = NoDerive

Manager == << scenario, defaultOptions, store, files, now, proc, done, prev >>

\* Each call is looked at on its own: one call of one function on two URLs.

CallGetCacheableUrl ==
  \E u1 \in PathUrls, u2 \in PathUrls, mode \in PathModes :
    /\ derive = NoDerive
    /\ derive' = [ fn |-> "getCacheableUrl", url1 |-> u1, url2 |-> u2, mode |-> mode,
                   out1 |-> getCacheableUrl(u1, mode), out2 |-> getCacheableUrl(u2, mode) ]
    /\ UNCHANGED Manager

CallGenerateCacheKey ==
  \E u1 \in PathUrls, u2 \in PathUrls, mode \in PathModes :
    /\ derive = NoDerive
    /\ derive' = [ fn |-> "generateCacheKey", url1 |-> u1, url2 |-> u2, mode |-> mode,
                   out1 |-> generateCacheKey(u1, mode), out2 |-> generateCacheKey(u2, mode) ]
    /\ UNCHANGED Manager

\* getImageRelativeFilePath takes no mode: it asks generateCacheKey for all
\* the query parameters.
CallGetImageRelativeFilePath ==
  \E u1 \in PathUrls, u2 \in PathUrls :
    /\ derive = NoDerive
    /\ derive' = [ fn |-> "getImageRelativeFilePath", url1 |-> u1, url2 |-> u2,
                   mode |-> QBool(TRUE),
                   out1 |-> getImageRelativeFilePath(u1),
                   out2 |-> getImageRelativeFilePath(u2) ]
    /\ UNCHANGED Manager

NextPath ==
  \/ CallGetCacheableUrl
  \/ CallGenerateCacheKey
  \/ CallGetImageRelativeFilePath

SpecPath == InitPath /\ [][NextPath]_vars

(***************************************************************************)
(* Properties                                                              *)
(***************************************************************************)

Fns(r) == [ i \in 1..Len(r.io) |-> r.io[i].fn ]

HasCall(r, fn) == \E i \in 1..Len(r.io) : r.io[i].fn = fn

Current == [ store |-> store, files |-> files, now |-> now ]

\* In snapshot s: the record of key is there and has not expired; it is there
\* and has expired; it has not expired and its file is there, or is not.
Live(s, key) == key \in DOMAIN s.store /\ s.now < s.store[key].expires
Expired(s, key) == key \in DOMAIN s.store /\ ~(s.now < s.store[key].expires)
Cached(s, key, loc) == Live(s, key) /\ PathIn(loc, s.store[key].path) \in s.files
Dangling(s, key, loc) == Live(s, key) /\ PathIn(loc, s.store[key].path) \notin s.files

\* The path the operation that settled derives for its URL.
DerivedPath(r) == PathIn(r.options.cacheLocation, getImageRelativeFilePath(r.cacheableUrl))

Download == "downloadAndCacheUrl"
Probe == "isCachedURL"

\* C1: an undisturbed probe right after a successful download of the same URL
\* with the same options resolves true, and an undisturbed download after it
\* (probes in between or not) resolves with the same path and calls no
\* downloadFile.
C1_RoundTrip ==
  (done.alone /\ done.after.known /\ done.after.op = Download) =>
    IF done.op = Probe
      THEN done.result = BoolResult(TRUE)
      ELSE /\ done.result = PathResult(done.after.path)
           /\ ~HasCall(done, "downloadFile")

C1_Witness ==
  /\ done.alone /\ done.after.known /\ done.after.op = Download
  /\ done.op = Download /\ done.pc = "resolved"

C3_Evict ==
  /\ (done.alone /\ done.op = "deleteUrl" /\ isCacheable(done.url)) =>
       /\ done.pc = "resolved"
       /\ done.cacheableUrl \notin DOMAIN store
       /\ DerivedPath(done) \notin files
  /\ (done.alone /\ done.op = Probe /\ done.after.known /\ done.after.op = "deleteUrl") =>
       done.result = BoolResult(FALSE)

C3_Witness ==
  /\ done.alone /\ done.op = "deleteUrl" /\ done.pc = "resolved"
  /\ Cached(done.pre, done.cacheableUrl, done.options.cacheLocation)

\* C4: on a URL that is no string starting with http:// or https://, the four
\* operations that take a URL reject with the not-cacheable error, call no
\* collaborator and leave the store and the files as they were.
C4_NotCacheable ==
  (done.op \in { Probe, Download, "seedAndCacheUrl", "deleteUrl" }
     /\ done.url \in { UrlFtp, Url42, UrlNull }) =>
    /\ done.pc = "rejected"
    /\ done.result = ErrorResult(NotCacheable)
    /\ done.io = << >>
    /\ store = done.pre.store
    /\ files = done.pre.files

C4_Witness ==
  /\ done.op = "deleteUrl" /\ done.url = Url42 /\ done.pc = "rejected"

\* C5: the step in which downloadFile or copyFile fails rejects the operation
\* with that error, the operation has called no urlCache.set, and the store
\* is left as it was.
C5_MaterializeFailure ==
  [][ \A p \in Procs :
        (proc[p].pc = "getCachedFile" /\ proc'[p].pc = "idle" /\ done'.pc = "rejected") =>
          /\ done'.result =
               ErrorResult(IF proc[p].op = Download THEN DownloadFailed ELSE CopyFailed)
          /\ ~HasCall(done, "set")'
          /\ store' = store ]_vars

C5_Witness ==
  /\ done.pc = "rejected" /\ done.op = "seedAndCacheUrl"
  /\ done.result = ErrorResult(CopyFailed)

\* C6 (as claimed): an undisturbed probe adds or changes no record and makes
\* no file.
C6_ProbeReadOnly ==
  (done.alone /\ done.op = Probe /\ done.pc = "resolved") =>
    /\ \A k \in DOMAIN store : k \in DOMAIN done.pre.store /\ store[k] = done.pre.store[k]
    /\ files \subseteq done.pre.files

\* C7: a probe of a cacheable URL never rejects; undisturbed, it resolves true
\* exactly when it found an unexpired record whose file was there.
C7_ProbeBoolean ==
  (done.op = Probe /\ done.url \in { UrlA, UrlB }) =>
    /\ done.pc = "resolved"
    /\ done.result.kind = "boolean"
    /\ done.alone =>
         done.result.bool = Cached(done.pre, done.cacheableUrl, done.options.cacheLocation)

C7_Witness ==
  /\ done.alone /\ done.op = Probe /\ done.result = BoolResult(FALSE)
  /\ Expired(done.pre, done.cacheableUrl)

\* C8: whenever an operation resolves through urlCache.set, also with another
\* one in flight for the same URL, the record of its cacheable URL is the one
\* it wrote.
C8_LastSetWins ==
  (done.pc = "resolved" /\ HasCall(done, "set")) =>
    /\ done.cacheableUrl \in DOMAIN store
    /\ store[done.cacheableUrl] =
         [ path |-> done.fileRelativePath, expires |-> now + done.options.ttl ]

\* Two downloads of one URL both missed, both deleted, both downloaded; one
\* has set its record over the other's and the other is about to set its own.
C8_Witness ==
  /\ done.op = Download /\ done.pc = "resolved"
  /\ Fns(done) = << "get", "deleteFile", "downloadFile", "set" >>
  /\ \E q \in Procs :
       /\ proc[q].op = Download /\ proc[q].pc = "set"
       /\ proc[q].cacheableUrl = done.cacheableUrl
       /\ proc[q].filePath = done.filePath
       /\ Fns(proc[q]) = << "get", "deleteFile", "downloadFile" >>
       /\ proc[q].options.ttl # done.options.ttl

\* An undisturbed download that found an expired record whose file was still
\* there.
ExpiredWithFile(r) ==
  /\ r.alone /\ r.op = Download
  /\ Expired(r.pre, r.cacheableUrl)
  /\ PathIn(r.options.cacheLocation, r.pre.store[r.cacheableUrl].path) \in r.pre.files

\* Such a download asks for no exists, deletes the file at the derived path
\* and downloads again; when it resolves, the record of its URL holds the
\* derived relative path and expires ttl seconds from now.
RefreshedWith(r, ttl) ==
  /\ SubSeq(Fns(r), 1, 3) = << "get", "deleteFile", "downloadFile" >>
  /\ r.io[2].args = << DerivedPath(r) >>
  /\ r.pc = "resolved" =>
       /\ Fns(r) = << "get", "deleteFile", "downloadFile", "set" >>
       /\ store[r.cacheableUrl] =
            [ path |-> getImageRelativeFilePath(r.cacheableUrl), expires |-> now + ttl ]

\* C9 (as claimed): the fresh record's TTL is the caller's ttl, or 1209600.
C9_ExpiredRefetch_Claimed ==
  ExpiredWithFile(done) =>
    RefreshedWith(done, IF "ttl" \in DOMAIN done.given THEN done.given.ttl ELSE 1209600)

\* C9 (amended): the fresh record's TTL is the caller's ttl, or the ttl of the
\* defaultOptions the manager was made with, which is 1209600 when none was
\* given.
C9_ExpiredRefetch ==
  ExpiredWithFile(done) =>
    RefreshedWith(done, IF "ttl" \in DOMAIN done.given THEN done.given.ttl
                        ELSE defaultOptions.ttl)

C9_Witness ==
  /\ ExpiredWithFile(done) /\ done.pc = "resolved"
  /\ "ttl" \notin DOMAIN done.given

\* C10 (as claimed): every fs.downloadFile call is given the merged headers
\* and the merged allowSelfSignedSSL.
C10_FetchOptions ==
  \A i \in 1..Len(done.io) :
    done.io[i].fn = "downloadFile" =>
      /\ Len(done.io[i].args) = 4
      /\ done.io[i].args[3] = done.options.headers
      /\ done.io[i].args[4] = done.options.allowSelfSignedSSL

\* C11 (as claimed): no step changes the defaultOptions of the manager, and
\* when an operation has settled the options object of its caller holds the
\* fields the caller put in it and nothing else.
C11_OptionsUntouched ==
  [][ /\ defaultOptions' = defaultOptions
      /\ done'.pc \in Settled => done'.options = done'.given ]_vars

\* C12: a clearCache whose flush fails rejects with that failure after the
\* flush alone, the files untouched; one that resolves has called flush and
\* then cleanDir on its cacheLocation and nothing else. Undisturbed, it leaves
\* the store empty and no file under its cacheLocation, and an undisturbed
\* probe of a cacheable URL right after it resolves false.
C12_ClearCache ==
  /\ (done.op = "clearCache" /\ done.pc = "rejected") =>
       /\ done.result = ErrorResult(FlushFailed)
       /\ Fns(done) = << "flush" >>
       /\ done.alone => files = done.pre.files
  /\ (done.op = "clearCache" /\ done.pc = "resolved") =>
       /\ Fns(done) = << "flush", "cleanDir" >>
       /\ done.io[2].args = << done.options.cacheLocation >>
       /\ done.alone =>
            /\ DOMAIN store = {}
            /\ fsGetDirInfo(done.options.cacheLocation) = 0
  /\ (done.alone /\ done.op = Probe /\ done.after.known /\ done.after.op = "clearCache"
        /\ isCacheable(done.url)) =>
       done.result = BoolResult(FALSE)

\* An undisturbed clearCache that found a record and its file has resolved.
C12_Witness ==
  /\ done.alone /\ done.op = "clearCache" /\ done.pc = "resolved"
  /\ \E k \in DOMAIN done.pre.store :
       Cached(done.pre, k, done.options.cacheLocation)

\* C13: an undisturbed download right after a successful download of a URL
\* that differs from its own only in an excluded query parameter, with the
\* same options, has the record key and the relative path of the first, asks
\* for get and exists and nothing else, and resolves with the path of the
\* first.
C13_ExcludedQuery ==
  (done.alone /\ done.op = Download /\ done.after.known /\ done.after.op = Download
     /\ done.url # done.after.url) =>
    /\ done.cacheableUrl =
         getCacheableUrl(done.after.url.val, done.options.useQueryParamsInCacheKey)
    /\ done.fileRelativePath = getImageRelativeFilePath(done.cacheableUrl)
    /\ Fns(done) = << "get", "exists" >>
    /\ done.result = PathResult(done.after.path)

\* The second download ran under an array of names that does not list x.
C13_Witness ==
  /\ done.alone /\ done.op = Download /\ done.after.known /\ done.after.op = Download
  /\ done.url # done.after.url /\ done.pc = "resolved"
  /\ done.options.useQueryParamsInCacheKey.isArray

\* The text of a URL up to its first ?, and the parameters after it.
UpToQuery(u) == substring(u, 0, indexOf(u, << "?" >>) + 1)
ParamsOf(u) == split(substring(u, indexOf(u, << "?" >>) + 1, Len(u)), "&")

\* Two URLs that are the same but for the order of their query parameters.
SameButOrder(u1, u2) ==
  /\ u1 # u2
  /\ UpToQuery(u1) = UpToQuery(u2)
  /\ Len(ParamsOf(u1)) = Len(ParamsOf(u2))
  /\ { ParamsOf(u1)[i] : i \in 1..Len(ParamsOf(u1)) }
       = { ParamsOf(u2)[i] : i \in 1..Len(ParamsOf(u2)) }

\* C14 (as claimed): getImageRelativeFilePath returns the same path for two
\* URLs that are the same but for the order of their query parameters, with
\* the formula marker in them or not.
C14_OrderInsensitive ==
  (derive.fn = "getImageRelativeFilePath" /\ SameButOrder(derive.url1, derive.url2)) =>
    derive.out1 = derive.out2

\* The text of a URL from the formula marker on, and before it.
FromMarker(u) == substring(u, indexOf(u, formulaFlag), Len(u))
UpToMarker(u) == substring(u, 0, indexOf(u, formulaFlag))

\* Two URLs with the marker, the same host and the same path.
SameFormula(u1, u2) ==
  /\ includes(u1, formulaFlag) /\ includes(u2, formulaFlag)
  /\ UpToMarker(u1) = UpToMarker(u2)

DifferInLastCharacter(s1, s2) ==
  /\ Len(s1) = Len(s2)
  /\ SubSeq(s1, 1, Len(s1) - 1) = SubSeq(s2, 1, Len(s2) - 1)
  /\ s1[Len(s1)] # s2[Len(s2)]

\* C15 (as claimed): generateCacheKey returns different keys for two URLs with
\* the marker, the same host and the same path whose text from the marker on
\* differs.
C15_FormulaKeys_Claimed ==
  (derive.fn = "generateCacheKey" /\ SameFormula(derive.url1, derive.url2)
     /\ FromMarker(derive.url1) # FromMarker(derive.url2)) =>
    derive.out1 # derive.out2

\* C15 (amended): the keys are different when the text from the marker on
\* differs in its last character only; the key of http://h/cgi-bin/math.cgi?x=1
\* hashes /cgi-bin, math.cgi, jpg and -2294999076, the sum of the 32-bit
\* hashes -1258780188 and -1036218888 of the two halves, not wrapped; two
\* calls on the same URL return the same key.
C15_FormulaKeys ==
  derive.fn = "generateCacheKey" =>
    /\ (SameFormula(derive.url1, derive.url2)
          /\ DifferInLastCharacter(FromMarker(derive.url1), FromMarker(derive.url2))) =>
         derive.out1 # derive.out2
    /\ derive.url1 = FormulaQuery \o << "x", "=", "1" >> =>
         derive.out1 =
           SHA1(<< "/", "c", "g", "i", "-", "b", "i", "n", "m", "a", "t", "h", ".", "c", "g", "i",
                   "j", "p", "g",
                   "-", "2", "2", "9", "4", "9", "9", "9", "0", "7", "6" >>)
             \o << ".", "j", "p", "g" >>
    /\ derive.url1 = derive.url2 => derive.out1 = derive.out2

C15_Witness ==
  /\ derive.fn = "generateCacheKey"
  /\ derive.url1 = FormulaQuery \o << "x", "=", "1" >>
  /\ derive.url2 = FormulaQuery \o << "x", "=", "2" >>

\* The collaborator call that makes the file of operation r.
Materialize(r) == IF r.op = Download THEN "downloadFile" ELSE "copyFile"

\* The calls of a download or a seeding r come in the order of the miss path:
\* the file is made right after deleteFile on the derived path, at that path;
\* set comes right after the file was made, with the cacheable URL, the
\* derived relative path and the ttl, and is the last call, after which r has
\* resolved with the derived path; and r resolves on the miss path only
\* through set.
OrderedMiss(r) ==
  LET derived == PathIn(r.options.cacheLocation, pathGetImageRelativeFilePath(r.cacheableUrl))
  IN /\ \A i \in 1..Len(r.io) :
          /\ r.io[i].fn = "deleteFile" => r.io[i].args = << derived >>
          /\ r.io[i].fn = Materialize(r) =>
               /\ i > 1 /\ r.io[i - 1].fn = "deleteFile"
               /\ r.io[i].args[2] = derived
          /\ r.io[i].fn = "set" =>
               /\ i > 1 /\ r.io[i - 1].fn = Materialize(r)
               /\ r.io[i].args = << r.cacheableUrl,
                                    pathGetImageRelativeFilePath(r.cacheableUrl),
                                    r.options.ttl >>
               /\ i = Len(r.io)
               /\ r.pc = "resolved"
               /\ r.result = PathResult(derived)
     /\ (r.pc = "resolved" /\ HasCall(r, "deleteFile")) => r.io[Len(r.io)].fn = "set"
     /\ r.pc = "rejected" => ~HasCall(r, "set")

\* C16: every download and every seeding, settled or in flight, alone or not,
\* has made its calls in the order of the miss path.
C16_MissOrder ==
  /\ done.op \in { Download, "seedAndCacheUrl" } => OrderedMiss(done)
  /\ \A p \in Procs : proc[p].op \in { Download, "seedAndCacheUrl" } => OrderedMiss(proc[p])

\* A seeding that found a record without its file has resolved.
C16_Witness ==
  /\ done.op = "seedAndCacheUrl" /\ done.pc = "resolved"
  /\ Fns(done) = << "get", "exists", "deleteFile", "copyFile", "set" >>

\* C17 (as claimed): with downloads, seedings and probes only, two at a time
\* on one URL, and no file deleted from outside, a download or a seeding that
\* resolves with a path resolves while a file is at that path.
C17_FileAtResolution ==
  (scenario = "race" /\ done.op \in { Download, "seedAndCacheUrl" } /\ done.pc = "resolved") =>
    done.result.path \in files

\* Two URLs that are the same but for the name of their one query parameter.
DifferInName(u1, u2) ==
  /\ UpToQuery(u1) = UpToQuery(u2)
  /\ Len(ParamsOf(u1)) = 1 /\ Len(ParamsOf(u2)) = 1
  /\ LET p1 == split(ParamsOf(u1)[1], "=")
         p2 == split(ParamsOf(u2)[1], "=")
     IN /\ Len(p1) = 2 /\ Len(p2) = 2
        /\ p1[1] # p2[1]
        /\ p1[2] = p2[2]

\* A URL that getCacheableUrl returns as it is when the query parameters are
\* part of the key.
Canonical(u) == getCacheableUrl(u, QBool(TRUE)) = u

\* C18 (as claimed): two canonical URLs on one host that differ in the name of
\* a query parameter have different relative file paths.
C18_DistinctPaths ==
  (derive.fn = "getImageRelativeFilePath"
     /\ Canonical(derive.url1) /\ Canonical(derive.url2)
     /\ DifferInName(derive.url1, derive.url2)) =>
    derive.out1 # derive.out2

\* The one place of the file of cacheable URL c under a cacheLocation.
PlaceOf(c, cacheLocation) == PathIn(cacheLocation, pathGetImageRelativeFilePath(c))

\* C19: in every state every record maps its cacheable URL c to
\* getImageRelativeFilePath(c), and the path an operation in flight has read
\* from the store, is about to write or is about to delete is the place of
\* its cacheable URL under its cacheLocation.
C19_RecordPaths ==
  /\ \A c \in DOMAIN store : store[c].path = pathGetImageRelativeFilePath(c)
  /\ \A p \in Procs :
       proc[p].pc \in { "exists", "deleteFile", "getCachedFile", "set", "remove", "unlink" } =>
         proc[p].filePath = PlaceOf(proc[p].cacheableUrl, proc[p].options.cacheLocation)

\* A deleteUrl is about to delete the file of a record that a download under
\* another URL text wrote and a hit has read.
C19_Witness ==
  /\ \E p \in Procs :
       /\ proc[p].op = "deleteUrl" /\ proc[p].pc = "remove"
       /\ proc[p].cacheableUrl \in DOMAIN store
       /\ proc[p].filePath =
            PathIn(proc[p].options.cacheLocation, store[proc[p].cacheableUrl].path)
       /\ proc[p].url.val # proc[p].cacheableUrl
       /\ proc[p].filePath \in files

\* C20: an undisturbed probe, download or seeding that found an unexpired
\* record whose file was there has resolved after get and exists and no other
\* call, and the store, the expiry of the record included, and the files are
\* as it found them.
C20_HitFrame ==
  (done.alone /\ done.op \in { Probe, Download, "seedAndCacheUrl" }
     /\ Cached(done.pre, done.cacheableUrl, done.options.cacheLocation)) =>
    /\ done.pc = "resolved"
    /\ Fns(done) = << "get", "exists" >>
    /\ store = done.pre.store
    /\ files = done.pre.files

\* A seeding has hit a record that was written a second ago.
C20_Witness ==
  /\ done.alone /\ done.op = "seedAndCacheUrl" /\ done.pc = "resolved"
  /\ Cached(done.pre, done.cacheableUrl, done.options.cacheLocation)
  /\ store[done.cacheableUrl].expires < now + done.options.ttl

====
